---------------------------- MODULE Spec2Model ----------------------------
(***************************************************************************)
(* A model of the world-generation pipeline: the terrain rule engine of    *)
(* biome_rules.py, the region partitioner of region_generator.py, and the  *)
(* noise-based generators of biome_generator.py and tilemap_generator.py.  *)
(*                                                                         *)
(* Grids are functions [0..H-1 -> [0..W-1 -> T]], indexed grid[y][x] as in  *)
(* the source.  Points are tuples <<x, y>>.                                 *)
(***************************************************************************)
EXTENDS Integers, Sequences, FiniteSets, TLC

VARIABLES
    \* ---- rule engine (biome_rules.py) ----
    terrain_map,      \* the grid the caller holds (input of the next apply_rules call)
    prev_terrain,     \* the argument of the last apply_rules call (<<>> before any call)
    passes,           \* number of apply_rules calls made so far
    \* ---- the process (module "random") and its caller ----
    rng,              \* state of the global generator: [seed, pos] = seeded with
                      \* seed, pos numbers drawn since
    tape,             \* the numbers drawn so far: <<seed, pos>> |-> u, u/RandRes
                      \* being the value random.random() gave at that state
    gens,             \* self.seed of every RegionGenerator constructed so far
    pristine,         \* the generator constructed last, while the global
                      \* generator has not been used since (0: none)
    budget,           \* constructions and calls the caller still makes
    results,          \* what each finished generate_regions call returned
    \* ---- the arguments of generate_regions ----
    width, height, num_regions, biome_map,
    \* ---- the running generate_regions call ----
    pc,               \* "idle", "seeding" (the while loop), "smoothing"
    cur,              \* the generator the call runs on, and whether it runs
                      \* right after its construction: [gen, fresh]
    min_distance, seeds, valid_positions, attempts,
    region_map, region_data,
    iteration,        \* smoothing passes done
    \* ---- the noise-based generators and the requests that ended at once ----
    noise_gen,        \* the BiomeGenerator or WorldMapGenerator constructed last:
                      \* [kind, width, height, seed]
    outcome           \* how the last generate call on it, or the last
                      \* generate_regions call with an empty grid, ended

rule_vars == <<terrain_map, prev_terrain, passes>>

proc_vars == <<rng, tape, gens, pristine, budget, results>>

arg_vars == <<width, height, num_regions, biome_map>>

call_vars == <<pc, cur, min_distance, seeds, valid_positions, attempts,
               region_map, region_data, iteration>>

gen_vars == <<noise_gen, outcome>>

vars == <<rule_vars, proc_vars, arg_vars, call_vars, gen_vars>>

-----------------------------------------------------------------------------
(* Bounds of the model *)

MaxW == 3            \* widest fully enumerated grid
MaxH == 3            \* tallest fully enumerated grid
MaxCells == 6        \* grids with W*H <= MaxCells are enumerated over all labels
MaxPasses == 2       \* apply_rules calls per behaviour
MaxRegions == 2      \* largest num_regions
MaxSeed == 2         \* constructor seeds are 1..MaxSeed
RandRes == 3         \* random.uniform(0, t) yields t * u / RandRes, u in 0..RandRes
MaxRegionCells == 4  \* biome maps with W*H <= MaxRegionCells are enumerated
MaxUniform == 4      \* uniform biome maps go up to MaxUniform x MaxUniform
MaxRunRegions == 1   \* largest num_regions of the two-run specification
MaxRunDim == 2       \* the two-run specification takes uniform maps up to MaxRunDim x MaxRunDim

-----------------------------------------------------------------------------
(* Grids *)

Height(g) == Cardinality(DOMAIN g)
Width(g) == Cardinality(DOMAIN g[0])

GridsOf(W, H, S) == [0..(H-1) -> [0..(W-1) -> S]]

Abs(n) == IF n < 0 THEN -n ELSE n

-----------------------------------------------------------------------------
(* tile_types.py *)

TileType == {"deep_water", "shallow_water", "sand", "grass", "forest", "mountain"}

-----------------------------------------------------------------------------
(* biome_rules.py *)

\* The <<dx, dy>> pairs in the order of the nested loops "for dy in [-1,0,1]:
\* for dx in [-1,0,1]" with (0,0) skipped.
NeighborOffsets ==
    << <<-1,-1>>, <<0,-1>>, <<1,-1>>,
       <<-1, 0>>,           <<1, 0>>,
       <<-1, 1>>, <<0, 1>>, <<1, 1>> >>

\* _get_neighbors: the 8 neighbours, "" for an out-of-bounds position.
get_neighbors(m, x, y) ==
    [i \in 1..8 |->
        LET nx == x + NeighborOffsets[i][1]
            ny == y + NeighborOffsets[i][2]
        IN  IF 0 <= nx /\ nx < Width(m) /\ 0 <= ny /\ ny < Height(m)
            THEN m[ny][nx]
            ELSE ""]

\* list.count
Count(s, v) == Cardinality({i \in DOMAIN s : s[i] = v})

\* Rule 1 looking at the 4 edge-adjacent neighbours only (positions 2, 4, 5, 7).
rule_mountain_water_edges_only(m, x, y) ==
    IF m[y][x] # "mountain" THEN m[y][x]
    ELSE IF \E i \in {2, 4, 5, 7} : get_neighbors(m, x, y)[i] = "deep_water"
         THEN "forest"
    ELSE m[y][x]

\* Rule 1: mountain -> forest if adjacent to deep water.
rule_mountain_water(m, x, y) ==
    IF m[y][x] # "mountain" THEN m[y][x]
    ELSE IF \E i \in 1..8 : get_neighbors(m, x, y)[i] = "deep_water" THEN "forest"
    ELSE m[y][x]

\* Rule 2 with the threshold off by one.
rule_isolated_grass_four(m, x, y) ==
    IF m[y][x] # "grass" THEN m[y][x]
    ELSE IF Count(get_neighbors(m, x, y), "sand") >= 4 THEN "sand"
    ELSE m[y][x]

\* Rule 2: grass -> sand if at least 5 neighbours are sand.
rule_isolated_grass(m, x, y) ==
    IF m[y][x] # "grass" THEN m[y][x]
    ELSE IF Count(get_neighbors(m, x, y), "sand") >= 5 THEN "sand"
    ELSE m[y][x]

\* Rule 3: shallow water -> sand if at least 6 neighbours are grass or sand.
rule_isolated_water(m, x, y) ==
    IF m[y][x] # "shallow_water" THEN m[y][x]
    ELSE IF Count(get_neighbors(m, x, y), "grass")
            + Count(get_neighbors(m, x, y), "sand") >= 6 THEN "sand"
    ELSE m[y][x]

\* Rule 4 returning MOUNTAIN for GRASS.
rule_isolated_forest_to_mountain(m, x, y) ==
    IF m[y][x] # "forest" THEN m[y][x]
    ELSE IF ~ \E i \in 1..8 : get_neighbors(m, x, y)[i] \in {"grass", "forest"}
         THEN "mountain"
    ELSE m[y][x]

\* Rule 4: forest -> grass if no neighbour is grass or forest.
rule_isolated_forest(m, x, y) ==
    IF m[y][x] # "forest" THEN m[y][x]
    ELSE IF ~ \E i \in 1..8 : get_neighbors(m, x, y)[i] \in {"grass", "forest"}
         THEN "grass"
    ELSE m[y][x]

\* self.rules, in order.
NumRules == 4
rule(i, m, x, y) ==
    CASE i = 1 -> rule_mountain_water(m, x, y)
      [] i = 2 -> rule_isolated_grass(m, x, y)
      [] i = 3 -> rule_isolated_water(m, x, y)
      [] i = 4 -> rule_isolated_forest(m, x, y)

\* The body of the inner loop for one cell: the rules are tried in order on the
\* map m that is passed in, and the first one that changes the cell is written.
RECURSIVE apply_cell_from(_, _, _, _)
apply_cell_from(i, m, x, y) ==
    IF i > NumRules THEN m
    ELSE LET current_type == m[y][x]
             new_type == rule(i, m, x, y)
         IN  IF new_type # current_type
             THEN [m EXCEPT ![y][x] = new_type]
             ELSE apply_cell_from(i + 1, m, x, y)

apply_cell(m, x, y) == apply_cell_from(1, m, x, y)

\* The two nested loops of apply_rules from cell number k (row-major) on: each
\* rule is handed new_map, the very grid the loop writes to.
RECURSIVE apply_rules_from(_, _)
apply_rules_from(k, new_map) ==
    IF k >= Width(new_map) * Height(new_map) THEN new_map
    ELSE apply_rules_from(k + 1,
             apply_cell(new_map, k % Width(new_map), k \div Width(new_map)))

apply_rules(m) == apply_rules_from(0, m)

-----------------------------------------------------------------------------
(* biome_types.py *)

BiomeType ==
    {"ocean", "desert", "swamp", "grassland", "forest", "steppe", "mountain", "snow"}

-----------------------------------------------------------------------------
(* region_generator.py: helpers *)

\* _manhattan_distance with a sign slip in the second term.
manhattan_distance_sign_slip(x1, y1, x2, y2) == Abs(x1 - x2) + Abs(y1 + y2)

\* _manhattan_distance
manhattan_distance(x1, y1, x2, y2) == Abs(x1 - x2) + Abs(y1 - y2)

\* _get_biome_weight, in tenths: self.biome_weights.get(biome, 0.5) * 10.
get_biome_weight(biome) ==
    CASE biome = "ocean"     -> 1
      [] biome = "swamp"     -> 4
      [] biome = "desert"    -> 6
      [] biome = "grassland" -> 10
      [] biome = "forest"    -> 12
      [] biome = "mountain"  -> 2
      [] biome = "snow"      -> 4
      [] OTHER               -> 5

\* int(np.sqrt((width * height) / (num_regions * 2))): the largest d with
\* d * d <= (width * height) / (num_regions * 2).
min_distance_of(W, H, n) ==
    CHOOSE d \in 0..(W * H) :
        /\ d * d * (n * 2) <= W * H
        /\ (d + 1) * (d + 1) * (n * 2) > W * H

\* max_attempts = num_regions * 100
MaxAttemptsFactor == 100

\* The (x, y, weight) triples appended by the loops "for y: for x:".
all_positions(W, H, bm) ==
    [i \in 1..(W * H) |->
        << (i - 1) % W, (i - 1) \div W,
           get_biome_weight(bm[(i - 1) \div W][(i - 1) % W]) >>]

\* list.sort(key=weight, reverse=True) is stable: e goes behind every element
\* whose weight is at least its own.
insert_by_weight(s, e) ==
    LET k == Cardinality({i \in 1..Len(s) : s[i][3] >= e[3]})
    IN  SubSeq(s, 1, k) \o <<e>> \o SubSeq(s, k + 1, Len(s))

RECURSIVE sort_by_weight_from(_, _, _)
sort_by_weight_from(i, s, acc) ==
    IF i > Len(s) THEN acc
    ELSE sort_by_weight_from(i + 1, s, insert_by_weight(acc, s[i]))

sort_by_weight(s) == sort_by_weight_from(1, s, <<>>)

\* sum(w for _, _, w in valid_positions[1..i])
RECURSIVE cum_weight(_, _)
cum_weight(vp, i) == IF i = 0 THEN 0 ELSE cum_weight(vp, i - 1) + vp[i][3]

\* The for loop over valid_positions: the index of the first position whose
\* running weight reaches r = total_weight * u / RandRes; 0 if there is none.
pick_position(vp, u) ==
    LET total_weight == cum_weight(vp, Len(vp))
        hit == {i \in 1..Len(vp) : cum_weight(vp, i) * RandRes >= total_weight * u}
    IN  IF hit = {} THEN 0 ELSE CHOOSE i \in hit : \A j \in hit : i <= j

\* The check against the seeds placed so far.
too_close(x, y, sds, d) ==
    \E i \in 1..Len(sds) : manhattan_distance(x, y, sds[i][1], sds[i][2]) < d

\* The list comprehension that drops the positions nearer than d to (x, y).
remove_near(vp, x, y, d) ==
    SelectSeq(vp, LAMBDA p : manhattan_distance(p[1], p[2], x, y) >= d)

-----------------------------------------------------------------------------
(* collections.Counter: a sequence of <<key, count>> in insertion order *)

counter_add(c, key) ==
    IF \E i \in 1..Len(c) : c[i][1] = key
    THEN [i \in 1..Len(c) |-> IF c[i][1] = key THEN <<key, c[i][2] + 1>> ELSE c[i]]
    ELSE Append(c, <<key, 1>>)

RECURSIVE counter_of_from(_, _, _)
counter_of_from(i, s, c) ==
    IF i > Len(s) THEN c ELSE counter_of_from(i + 1, s, counter_add(c, s[i]))

\* Counter(iterable)
counter_of(s) == counter_of_from(1, s, <<>>)

\* most_common(1)[0][0] keeping the last of the entries with the highest count.
most_common_last(c) ==
    c[CHOOSE i \in 1..Len(c) :
        /\ \A j \in 1..Len(c) : c[j][2] <= c[i][2]
        /\ \A j \in (i + 1)..Len(c) : c[j][2] < c[i][2]][1]

\* most_common(1)[0][0]: max() keeps the first of the entries with the
\* highest count.
most_common(c) ==
    c[CHOOSE i \in 1..Len(c) :
        /\ \A j \in 1..Len(c) : c[j][2] <= c[i][2]
        /\ \A j \in 1..(i - 1) : c[j][2] < c[i][2]][1]

-----------------------------------------------------------------------------
(* region_generator.py: _assign_tiles_to_regions *)

\* The value the defaultdict makes for a key it does not hold.
default_region ==
    [id |-> -1, seed |-> <<0, 0>>, area |-> 0, tiles |-> {},
     biome_counts |-> <<>>, dominant_biome |-> "None", centroid |-> <<0, 0>>]

\* region_data[key] on the defaultdict
region_get(rd, key) == IF key \in DOMAIN rd THEN rd[key] ELSE default_region

\* region_data[key] = rec
region_put(rd, key, rec) ==
    [k \in DOMAIN rd \cup {key} |-> IF k = key THEN rec ELSE rd[k]]

\* "Initialize region data": one record per seed, keyed by its index.
init_region_data(sds) ==
    [i \in 0..(Len(sds) - 1) |->
        [id |-> i, seed |-> sds[i + 1], area |-> 0, tiles |-> {},
         biome_counts |-> <<>>, dominant_biome |-> "None",
         centroid |-> sds[i + 1]]]

\* "Find nearest seed" with "dist <= min_dist": the last seed at the least
\* distance is kept.
nearest_region_last_tie(x, y, sds) ==
    IF Len(sds) = 0 THEN -1
    ELSE (CHOOSE i \in 1..Len(sds) :
            /\ \A j \in 1..Len(sds) :
                   manhattan_distance(x, y, sds[i][1], sds[i][2])
                       <= manhattan_distance(x, y, sds[j][1], sds[j][2])
            /\ \A j \in (i + 1)..Len(sds) :
                   manhattan_distance(x, y, sds[i][1], sds[i][2])
                       < manhattan_distance(x, y, sds[j][1], sds[j][2])) - 1

\* "Find nearest seed" with enumerate counting from 1.
nearest_region_from_one(x, y, sds) ==
    IF Len(sds) = 0 THEN -1
    ELSE CHOOSE i \in 1..Len(sds) :
            /\ \A j \in 1..Len(sds) :
                   manhattan_distance(x, y, sds[i][1], sds[i][2])
                       <= manhattan_distance(x, y, sds[j][1], sds[j][2])
            /\ \A j \in 1..(i - 1) :
                   manhattan_distance(x, y, sds[i][1], sds[i][2])
                       < manhattan_distance(x, y, sds[j][1], sds[j][2])

\* "Find nearest seed": "dist < min_dist" keeps the first seed (0-based index)
\* at the least distance; -1 when there is no seed.
nearest_region(x, y, sds) ==
    IF Len(sds) = 0 THEN -1
    ELSE (CHOOSE i \in 1..Len(sds) :
            /\ \A j \in 1..Len(sds) :
                   manhattan_distance(x, y, sds[i][1], sds[i][2])
                       <= manhattan_distance(x, y, sds[j][1], sds[j][2])
            /\ \A j \in 1..(i - 1) :
                   manhattan_distance(x, y, sds[i][1], sds[i][2])
                       < manhattan_distance(x, y, sds[j][1], sds[j][2])) - 1

\* The three tallies of "Assign tile to region" with "area =+ 1" for "area += 1".
region_add_tile_area_one(rec, x, y, biome) ==
    [rec EXCEPT !.area = 1,
                !.tiles = @ \cup {<<x, y>>},
                !.biome_counts = counter_add(@, biome)]

\* The three tallies of "Assign tile to region".
region_add_tile(rec, x, y, biome) ==
    [rec EXCEPT !.area = @ + 1,
                !.tiles = @ \cup {<<x, y>>},
                !.biome_counts = counter_add(@, biome)]

\* The loops "for y: for x:" from cell number k on; st = [map, data].
RECURSIVE assign_from(_, _, _, _, _, _)
assign_from(k, W, H, sds, bm, st) ==
    IF k >= W * H THEN st
    ELSE LET x == k % W
             y == k \div W
             nr == nearest_region(x, y, sds)
         IN  assign_from(k + 1, W, H, sds, bm,
                 [map  |-> [st.map EXCEPT ![y][x] = nr],
                  data |-> region_put(st.data, nr,
                              region_add_tile(region_get(st.data, nr), x, y, bm[y][x]))])

RECURSIVE sum_coord(_, _)
sum_coord(tiles, c) ==
    IF tiles = {} THEN 0
    ELSE LET t == CHOOSE t \in tiles : TRUE
         IN  t[c] + sum_coord(tiles \ {t}, c)

\* "Calculate dominant biomes and centroids" for one record.
finish_region(rec) ==
    LET d == IF rec.biome_counts # <<>> THEN most_common(rec.biome_counts)
             ELSE rec.dominant_biome
        c == IF rec.tiles # {}
             THEN << sum_coord(rec.tiles, 1) \div rec.area,
                     sum_coord(rec.tiles, 2) \div rec.area >>
             ELSE rec.centroid
    IN  [rec EXCEPT !.dominant_biome = d, !.centroid = c]

\* _assign_tiles_to_regions: [map |-> region_map, data |-> region_data]
assign_tiles_to_regions(W, H, sds, bm) ==
    LET st == assign_from(0, W, H, sds, bm,
                  [map  |-> [y \in 0..(H-1) |-> [x \in 0..(W-1) |-> -1]],
                   data |-> init_region_data(sds)])
    IN  [map  |-> st.map,
         data |-> [k \in DOMAIN st.data |-> finish_region(st.data[k])]]

-----------------------------------------------------------------------------
(* region_generator.py: _smooth_regions *)

\* The neighbour scan without "if dx == 0 and dy == 0: continue".
region_neighbors_with_self(m, x, y) ==
    LET offs == SubSeq(NeighborOffsets, 1, 4) \o << <<0, 0>> >>
                    \o SubSeq(NeighborOffsets, 5, 8)
        inb == SelectSeq(offs,
                   LAMBDA o : /\ 0 <= x + o[1] /\ x + o[1] < Width(m)
                              /\ 0 <= y + o[2] /\ y + o[2] < Height(m))
    IN  [i \in 1..Len(inb) |-> m[y + inb[i][2]][x + inb[i][1]]]

\* smoothed[ny][nx] of the in-bounds neighbours, in the order of the dy, dx loops.
region_neighbors(m, x, y) ==
    LET inb == SelectSeq(NeighborOffsets,
                   LAMBDA o : /\ 0 <= x + o[1] /\ x + o[1] < Width(m)
                              /\ 0 <= y + o[2] /\ y + o[2] < Height(m))
    IN  [i \in 1..Len(inb) |-> m[y + inb[i][2]][x + inb[i][1]]]

\* One iteration of the outer loop: new_map is written, smoothed is read.
smooth_pass(smoothed) ==
    [y \in DOMAIN smoothed |-> [x \in DOMAIN smoothed[y] |->
        LET neighbors == region_neighbors(smoothed, x, y)
        IN  IF neighbors # <<>> THEN most_common(counter_of(neighbors))
            ELSE smoothed[y][x]]]

\* iterations: int = 2
SmoothIterations == 2

-----------------------------------------------------------------------------
(* numpy, as far as _generate_noise_map uses it *)

MaxNoiseDim == 2     \* widths and heights handed to the noise-based generators

\* 1000 * np.sin(a2 / 2), rounded, at the arguments the grids of up to three
\* samples per axis need.
SinMilli(a2) ==
    CASE a2 = 0  -> 0
      [] a2 = 3  -> 997
      [] a2 = 4  -> 909
      [] a2 = 6  -> 141
      [] a2 = 8  -> -757
      [] a2 = 12 -> -279
      [] a2 = 16 -> 989
      [] a2 = 24 -> -537
      [] a2 = 32 -> -288
      [] a2 = 64 -> 551

\* 1000 * np.cos(a2 / 2), rounded.
CosMilli(a2) ==
    CASE a2 = 0  -> 1000
      [] a2 = 3  -> 71
      [] a2 = 4  -> -416
      [] a2 = 6  -> -990
      [] a2 = 8  -> -654
      [] a2 = 12 -> 960
      [] a2 = 16 -> -146
      [] a2 = 24 -> 844
      [] a2 = 32 -> -958
      [] a2 = 64 -> 834

\* 2 * np.linspace(0, scale, n)[i]: the single sample of n = 1 is the start, 0.
linspace2(scale, n, i) == IF n = 1 THEN 0 ELSE (2 * scale * i) \div (n - 1)

RECURSIVE Pow2(_)
Pow2(k) == IF k = 0 THEN 1 ELSE 2 * Pow2(k - 1)

\* Least and greatest element of a non-empty set of integers.
SetMin(S) == CHOOSE v \in S : \A w \in S : v <= w
SetMax(S) == CHOOSE v \in S : \A w \in S : v >= w

-----------------------------------------------------------------------------
(* biome_generator.py and tilemap_generator.py: noise and classification *)

\* The octave loop for one cell: the sum of sin(X * 2^k) * cos(Y * 2^k) / 2^k
\* over k = k..octaves-1, in units of 10^-6 / 2^(octaves-1).
RECURSIVE octave_sum(_, _, _, _)
octave_sum(x2, y2, octaves, k) ==
    IF k >= octaves THEN 0
    ELSE SinMilli(x2 * Pow2(k)) * CosMilli(y2 * Pow2(k)) * Pow2(octaves - 1 - k)
             + octave_sum(x2, y2, octaves, k + 1)

\* The field `noise` before it is normalised (W, H >= 1).
accumulate_noise(W, H, scale, octaves) ==
    [y \in 0..(H-1) |-> [x \in 0..(W-1) |->
        octave_sum(linspace2(scale, W, x), linspace2(scale, H, y), octaves, 0)]]

FieldValues(f) == {f[y][x] : y \in DOMAIN f, x \in DOMAIN f[0]}

\* noise.max() == noise.min()
is_flat(f) == SetMax(FieldValues(f)) = SetMin(FieldValues(f))

\* (noise - noise.min()) / (noise.max() - noise.min()): every cell as the
\* fraction num / den.  On a flat field every cell is 0.0 / 0.0, which numpy
\* evaluates to nan (den = 0 here).
normalize(f) ==
    [y \in DOMAIN f |-> [x \in DOMAIN f[y] |->
        [num |-> f[y][x] - SetMin(FieldValues(f)),
         den |-> SetMax(FieldValues(f)) - SetMin(FieldValues(f))]]]

\* _generate_noise_map(scale, octaves)
generate_noise_map(W, H, scale, octaves) ==
    normalize(accumulate_noise(W, H, scale, octaves))

\* v < t / 100 and v > t / 100 on a normalised value; both are False on nan.
less_than(v, t) == v.den > 0 /\ v.num * 100 < t * v.den
greater_than(v, t) == v.den > 0 /\ v.num * 100 > t * v.den

\* BiomeGenerator._get_biome
get_biome(elevation, moisture) ==
    IF less_than(elevation, 20) THEN "ocean"
    ELSE IF greater_than(elevation, 80)
         THEN (IF greater_than(moisture, 50) THEN "snow" ELSE "mountain")
    ELSE IF greater_than(elevation, 50)
         THEN (IF greater_than(moisture, 70) THEN "forest"
               ELSE IF greater_than(moisture, 40) THEN "grassland"
               ELSE "steppe")
    ELSE IF greater_than(moisture, 70) THEN "swamp"
    ELSE IF greater_than(moisture, 40) THEN "grassland"
    ELSE "desert"

\* TerrainMapper.biome_to_terrain.get(biome, GRASS)
biome_to_terrain(biome) ==
    CASE biome = "ocean"     -> "deep_water"
      [] biome = "swamp"     -> "shallow_water"
      [] biome = "desert"    -> "sand"
      [] biome = "forest"    -> "forest"
      [] biome = "grassland" -> "grass"
      [] biome = "steppe"    -> "grass"
      [] biome = "mountain"  -> "mountain"
      [] biome = "snow"      -> "mountain"
      [] OTHER               -> "grass"

\* TerrainMapper.translate_biomes
translate_biomes(bm) ==
    [y \in DOMAIN bm |-> [x \in DOMAIN bm[y] |-> biome_to_terrain(bm[y][x])]]

\* WorldMapGenerator._noise_to_terrain
noise_to_terrain(v) ==
    IF less_than(v, 20) THEN "deep_water"
    ELSE IF less_than(v, 30) THEN "shallow_water"
    ELSE IF less_than(v, 40) THEN "sand"
    ELSE IF less_than(v, 70) THEN "grass"
    ELSE IF less_than(v, 85) THEN "forest"
    ELSE "mountain"

\* What _generate_noise_map raises on a width x height request: np.linspace
\* refuses a negative number of samples, and noise.min() a zero-size array.
noise_raises(W, H) ==
    IF W < 0 \/ H < 0 THEN "ValueError"
    ELSE IF W = 0 \/ H = 0 THEN "ValueError"
    ELSE "None"

\* Whether _generate_noise_map gets as far as np.zeros((height, width)).
noise_allocates(W, H) == W >= 0 /\ H >= 0

\* BiomeGenerator.generate on a width x height instance.
biome_generate(W, H) ==
    IF noise_raises(W, H) # "None"
    THEN [op |-> "BiomeGenerator.generate", width |-> W, height |-> H,
          raised |-> noise_raises(W, H), allocated |-> noise_allocates(W, H),
          divided_by_zero |-> FALSE, fields |-> <<>>, grids |-> <<>>]
    ELSE LET elevation_map == generate_noise_map(W, H, 4, 4)
             moisture_map == generate_noise_map(W, H, 3, 3)
             bm == [y \in 0..(H-1) |-> [x \in 0..(W-1) |->
                       get_biome(elevation_map[y][x], moisture_map[y][x])]]
         IN  [op |-> "BiomeGenerator.generate", width |-> W, height |-> H,
              raised |-> "None", allocated |-> TRUE,
              divided_by_zero |-> \/ is_flat(accumulate_noise(W, H, 4, 4))
                                  \/ is_flat(accumulate_noise(W, H, 3, 3)),
              fields |-> <<elevation_map, moisture_map>>,
              grids |-> <<bm, translate_biomes(bm)>>]

\* WorldMapGenerator.generate on a width x height instance.
world_generate(W, H) ==
    IF noise_raises(W, H) # "None"
    THEN [op |-> "WorldMapGenerator.generate", width |-> W, height |-> H,
          raised |-> noise_raises(W, H), allocated |-> noise_allocates(W, H),
          divided_by_zero |-> FALSE, fields |-> <<>>, grids |-> <<>>]
    ELSE LET noise_map == generate_noise_map(W, H, 4, 4)
             tm == [y \in 0..(H-1) |-> [x \in 0..(W-1) |->
                       noise_to_terrain(noise_map[y][x])]]
         IN  [op |-> "WorldMapGenerator.generate", width |-> W, height |-> H,
              raised |-> "None", allocated |-> TRUE,
              divided_by_zero |-> is_flat(accumulate_noise(W, H, 4, 4)),
              fields |-> <<noise_map>>,
              grids |-> <<apply_rules(tm)>>]

-----------------------------------------------------------------------------
(* Inputs of the rule engine *)

Dims == {d \in (1..MaxW) \X (1..MaxH) : d[1] * d[2] <= MaxCells}

\* Every terrain grid of the enumerated sizes, and the 3x3 grids (the smallest
\* with a cell that has all 8 neighbours) that use at most two labels.
TerrainInputs ==
    UNION {GridsOf(d[1], d[2], TileType) : d \in Dims}
    \cup UNION {GridsOf(3, 3, {a, b}) : a \in TileType, b \in TileType}

\* No noise-based generator has been constructed and no request has ended.
NoGenerator == [kind |-> "none", width |-> 0, height |-> 0, seed |-> 0]

NoOutcome ==
    [op |-> "none", width |-> 0, height |-> 0, raised |-> "None",
     allocated |-> FALSE, divided_by_zero |-> FALSE, fields |-> <<>>, grids |-> <<>>]

GenIdle ==
    /\ noise_gen = NoGenerator
    /\ outcome = NoOutcome

\* No generate_regions call is running.
CallIdle ==
    /\ pc = "idle"
    /\ cur = [gen |-> 0, fresh |-> FALSE]
    /\ min_distance = 0
    /\ seeds = <<>>
    /\ valid_positions = <<>>
    /\ attempts = 0
    /\ region_map = <<>>
    /\ region_data = <<>>
    /\ iteration = 0

InitRules ==
    /\ terrain_map \in TerrainInputs
    /\ prev_terrain = <<>>
    /\ passes = 0
    /\ rng = [seed |-> 0, pos |-> 0]
    /\ tape = <<>>
    /\ gens = <<>>
    /\ pristine = 0
    /\ budget = [gens |-> 0, calls |-> 0]
    /\ results = <<>>
    /\ width = 1 /\ height = 1 /\ num_regions = 1
    /\ biome_map = [y \in {0} |-> [x \in {0} |-> "ocean"]]
    /\ CallIdle
    /\ GenIdle

\* terrain_map = engine.apply_rules(terrain_map)
ApplyRules ==
    /\ passes < MaxPasses
    /\ terrain_map' = apply_rules(terrain_map)
    /\ prev_terrain' = terrain_map
    /\ passes' = passes + 1
    /\ UNCHANGED <<proc_vars, arg_vars, call_vars, gen_vars>>

NextRules == ApplyRules

SpecRules == InitRules /\ [][NextRules]_vars

\* The grids of the iteration: the inputs above and the 3x3 grids of mountain,
\* deep water and sand, on which a cell can be rewritten three times.
IterateInputs ==
    TerrainInputs \cup GridsOf(3, 3, {"mountain", "deep_water", "sand"})

InitIterate ==
    /\ terrain_map \in IterateInputs
    /\ prev_terrain = <<>>
    /\ passes = 0
    /\ rng = [seed |-> 0, pos |-> 0]
    /\ tape = <<>>
    /\ gens = <<>>
    /\ pristine = 0
    /\ budget = [gens |-> 0, calls |-> 0]
    /\ results = <<>>
    /\ width = 1 /\ height = 1 /\ num_regions = 1
    /\ biome_map = [y \in {0} |-> [x \in {0} |-> "ocean"]]
    /\ CallIdle
    /\ GenIdle

\* terrain_map = engine.apply_rules(terrain_map), repeated for as long as the
\* last pass changed the grid (and for no more than 3 * W * H + 2 passes).
ApplyRulesAgain ==
    /\ passes < 3 * Width(terrain_map) * Height(terrain_map) + 2
    /\ passes > 0 => terrain_map # prev_terrain
    /\ terrain_map' = apply_rules(terrain_map)
    /\ prev_terrain' = terrain_map
    /\ passes' = passes + 1
    /\ UNCHANGED <<proc_vars, arg_vars, call_vars, gen_vars>>

NextIterate == ApplyRulesAgain

SpecIterate == InitIterate /\ [][NextIterate]_vars

-----------------------------------------------------------------------------
(* Inputs of the region partitioner *)

\* The biome labels of the input maps: the lightest, the heaviest and one
\* without an entry in biome_weights.
BiomeInputs == {"ocean", "forest", "steppe"}

\* The (width, height, biome_map) arguments with every biome map of
\* W * H <= cells cells.
EnumeratedWorlds(cells) ==
    UNION {{[w |-> d[1], h |-> d[2], bm |-> bm] : bm \in GridsOf(d[1], d[2], BiomeInputs)} :
              d \in {d \in (1..MaxW) \X (1..MaxH) : d[1] * d[2] <= cells}}

\* The (width, height, biome_map) arguments with a uniform map of one of
\* `biomes`, up to uni x uni.
UniformWorlds(uni, biomes) ==
    UNION {{[w |-> d[1], h |-> d[2],
             bm |-> [y \in 0..(d[2]-1) |-> [x \in 0..(d[1]-1) |-> b]]] : b \in biomes} :
              d \in (1..uni) \X (1..uni)}

\* The state after RegionGenerator(seed=s), s in 1..nseeds, for a caller that
\* goes on to make `calls` calls and `news` further constructions, all calls
\* with the same arguments: a world of `worlds` and num_regions in 1..nregions.
InitWith(worlds, nregions, nseeds, news, calls) ==
    /\ terrain_map = <<>>
    /\ prev_terrain = <<>>
    /\ passes = 0
    /\ \E s \in 1..nseeds :
          /\ gens = <<s>>
          /\ rng = [seed |-> s, pos |-> 0]
    /\ tape = <<>>
    /\ pristine = 1
    /\ budget = [gens |-> news, calls |-> calls]
    /\ results = <<>>
    /\ \E wd \in worlds :
          /\ width = wd.w
          /\ height = wd.h
          /\ biome_map = wd.bm
    /\ num_regions \in 1..nregions
    /\ CallIdle
    /\ GenIdle

-----------------------------------------------------------------------------
(* region_generator.py: the operations *)

\* __init__ without random.seed(self.seed).
RegionGenerator_init_no_seed(s) ==
    /\ pc = "idle"
    /\ budget.gens > 0
    /\ gens' = Append(gens, s)
    /\ pristine' = Len(gens) + 1
    /\ budget' = [budget EXCEPT !.gens = @ - 1]
    /\ UNCHANGED <<rng, tape, results, arg_vars, call_vars, rule_vars, gen_vars>>

\* RegionGenerator(seed=s): self.seed = s; random.seed(self.seed).  (np.random is
\* seeded too and never read.)
RegionGenerator_init(s) ==
    /\ pc = "idle"
    /\ budget.gens > 0
    /\ gens' = Append(gens, s)
    /\ rng' = [seed |-> s, pos |-> 0]
    /\ pristine' = Len(gens) + 1
    /\ budget' = [budget EXCEPT !.gens = @ - 1]
    /\ UNCHANGED <<tape, results, arg_vars, call_vars, rule_vars, gen_vars>>

\* The while condition with <= for the seed count.
loop_continues_one_more(sds, att, n) ==
    Len(sds) <= n /\ att < n * MaxAttemptsFactor

\* while len(seeds) < num_regions and attempts < max_attempts
loop_continues(sds, att, n) ==
    Len(sds) < n /\ att < n * MaxAttemptsFactor

\* generate_regions on generator g, up to the while loop of
\* _generate_seed_points.
GenerateRegions(g) ==
    /\ pc = "idle"
    /\ budget.calls > 0
    /\ width >= 1 /\ height >= 1
    /\ budget' = [budget EXCEPT !.calls = @ - 1]
    /\ cur' = [gen |-> g, fresh |-> (pristine = g)]
    /\ pristine' = 0
    /\ min_distance' = min_distance_of(width, height, num_regions)
    /\ seeds' = <<>>
    /\ attempts' = 0
    /\ valid_positions' = sort_by_weight(all_positions(width, height, biome_map))
    /\ pc' = "seeding"
    /\ UNCHANGED <<rng, tape, gens, results, arg_vars, region_map, region_data,
                   iteration, rule_vars, gen_vars>>

\* One iteration of the while loop: r = random.uniform(0, total_weight), the
\* scan for the position it falls on, and the acceptance test.
DrawAttempt ==
    /\ pc = "seeding"
    /\ loop_continues(seeds, attempts, num_regions)
    /\ \E u \in 0..RandRes :
          LET key == <<rng.seed, rng.pos>>
              i == pick_position(valid_positions, u)
          IN  /\ key \in DOMAIN tape => tape[key] = u
              /\ tape' = IF key \in DOMAIN tape THEN tape ELSE tape @@ (key :> u)
              /\ IF i # 0 /\ ~ too_close(valid_positions[i][1], valid_positions[i][2],
                                         seeds, min_distance)
                 THEN /\ seeds' = Append(seeds, <<valid_positions[i][1],
                                                  valid_positions[i][2]>>)
                      /\ valid_positions' =
                             remove_near(valid_positions, valid_positions[i][1],
                                         valid_positions[i][2], min_distance)
                 ELSE UNCHANGED <<seeds, valid_positions>>
    /\ rng' = [rng EXCEPT !.pos = @ + 1]
    /\ attempts' = attempts + 1
    /\ UNCHANGED <<gens, pristine, budget, results, arg_vars, pc, cur, min_distance,
                   region_map, region_data, iteration, rule_vars, gen_vars>>

\* The loop has ended: "return seeds", then _assign_tiles_to_regions.
AssignTiles ==
    /\ pc = "seeding"
    /\ ~ loop_continues(seeds, attempts, num_regions)
    /\ LET a == assign_tiles_to_regions(width, height, seeds, biome_map)
       IN  /\ region_map' = a.map
           /\ region_data' = a.data
    /\ iteration' = 0
    /\ pc' = "smoothing"
    /\ UNCHANGED <<proc_vars, arg_vars, cur, min_distance, seeds, valid_positions,
                   attempts, rule_vars, gen_vars>>

\* One pass of _smooth_regions.
SmoothPass ==
    /\ pc = "smoothing"
    /\ iteration < SmoothIterations
    /\ region_map' = smooth_pass(region_map)
    /\ iteration' = iteration + 1
    /\ UNCHANGED <<proc_vars, arg_vars, pc, cur, min_distance, seeds, valid_positions,
                   attempts, region_data, rule_vars, gen_vars>>

\* return region_map, seeds, region_data
Return ==
    /\ pc = "smoothing"
    /\ iteration >= SmoothIterations
    /\ results' = Append(results,
           [gen |-> cur.gen, fresh |-> cur.fresh, seed |-> gens[cur.gen],
            seeds |-> seeds, region_map |-> region_map, region_data |-> region_data])
    /\ pc' = "idle"
    /\ cur' = [gen |-> 0, fresh |-> FALSE]
    /\ min_distance' = 0
    /\ seeds' = <<>>
    /\ valid_positions' = <<>>
    /\ attempts' = 0
    /\ region_map' = <<>>
    /\ region_data' = <<>>
    /\ iteration' = 0
    /\ UNCHANGED <<rng, tape, gens, pristine, budget, arg_vars, rule_vars, gen_vars>>

\* generate_regions on a width x height grid without cells (width <= 0 or
\* height <= 0): np.sqrt of a negative quotient is nan, which int() refuses;
\* otherwise valid_positions is empty, the while loop runs out its attempts
\* without a seed, region_map is [[] for _ in range(height)], and
\* _smooth_regions reads region_map[0].
empty_generate_regions(W, H) ==
    [op |-> "RegionGenerator.generate_regions", width |-> W, height |-> H,
     raised |-> IF W * H < 0 THEN "ValueError"
                ELSE IF H <= 0 THEN "IndexError"
                ELSE "None",
     allocated |-> W * H >= 0,
     divided_by_zero |-> FALSE,
     fields |-> <<>>,
     grids |-> IF W * H >= 0 /\ H > 0 THEN << [y \in 0..(H-1) |-> <<>>] >> ELSE <<>>]

\* The whole generate_regions call on generator g when the grid has no cells.
\* Every iteration of the while loop draws r = random.uniform(0, 0).
GenerateRegionsEmpty(g) ==
    /\ pc = "idle"
    /\ budget.calls > 0
    /\ width <= 0 \/ height <= 0
    /\ budget' = [budget EXCEPT !.calls = @ - 1]
    /\ outcome' = empty_generate_regions(width, height)
    /\ IF width * height < 0
       THEN UNCHANGED <<rng, pristine>>
       ELSE /\ rng' = [rng EXCEPT !.pos = @ + num_regions * MaxAttemptsFactor]
            /\ pristine' = 0
    /\ UNCHANGED <<tape, gens, results, arg_vars, call_vars, rule_vars, noise_gen>>

\* render_region_map on generator g with the grid of the i-th result: for each
\* region id i' below the largest id in the grid plus one, random.seed(self.seed
\* + i') and three random.randint draws.  The global generator is left seeded
\* with self.seed + (largest id) and three randint draws on; that state is
\* written [seed |-> -(self.seed + largest id), pos |-> 0], a stream of its own.
RenderRegionMap(g, i) ==
    /\ pc = "idle"
    /\ i \in 1..Len(results)
    /\ LET m == results[i].region_map
           top == SetMax({m[y][x] : y \in DOMAIN m, x \in DOMAIN m[0]})
       IN  rng' = [seed |-> -(gens[g] + top), pos |-> 0]
    /\ pristine' = 0
    /\ UNCHANGED <<tape, gens, budget, results, arg_vars, call_vars, rule_vars, gen_vars>>

-----------------------------------------------------------------------------
(* biome_generator.py and tilemap_generator.py: the operations *)

\* BiomeGenerator(width=w, height=h, seed=s): random.seed(self.seed)
BiomeGenerator_init(w, h, s) ==
    /\ pc = "idle"
    /\ budget.gens > 0
    /\ noise_gen' = [kind |-> "BiomeGenerator", width |-> w, height |-> h, seed |-> s]
    /\ rng' = [seed |-> s, pos |-> 0]
    /\ pristine' = 0
    /\ budget' = [budget EXCEPT !.gens = @ - 1]
    /\ UNCHANGED <<tape, gens, results, arg_vars, call_vars, rule_vars, outcome>>

\* WorldMapGenerator(width=w, height=h, seed=s): random.seed(self.seed)
WorldMapGenerator_init(w, h, s) ==
    /\ pc = "idle"
    /\ budget.gens > 0
    /\ noise_gen' = [kind |-> "WorldMapGenerator", width |-> w, height |-> h, seed |-> s]
    /\ rng' = [seed |-> s, pos |-> 0]
    /\ pristine' = 0
    /\ budget' = [budget EXCEPT !.gens = @ - 1]
    /\ UNCHANGED <<tape, gens, results, arg_vars, call_vars, rule_vars, outcome>>

\* generate() on the BiomeGenerator constructed last
BiomeGenerator_generate ==
    /\ pc = "idle"
    /\ noise_gen.kind = "BiomeGenerator"
    /\ outcome' = biome_generate(noise_gen.width, noise_gen.height)
    /\ UNCHANGED <<proc_vars, arg_vars, call_vars, rule_vars, noise_gen>>

\* generate() on the WorldMapGenerator constructed last
WorldMapGenerator_generate ==
    /\ pc = "idle"
    /\ noise_gen.kind = "WorldMapGenerator"
    /\ outcome' = world_generate(noise_gen.width, noise_gen.height)
    /\ UNCHANGED <<proc_vars, arg_vars, call_vars, rule_vars, noise_gen>>

-----------------------------------------------------------------------------
(* The specifications of the region partitioner and of the generators *)

\* One generator, one call.
Init ==
    InitWith(EnumeratedWorlds(MaxRegionCells) \cup UniformWorlds(MaxUniform, BiomeInputs),
             MaxRegions, 1, 0, 1)

Next ==
    \/ \E g \in 1..Len(gens) : GenerateRegions(g)
    \/ DrawAttempt
    \/ AssignTiles
    \/ SmoothPass
    \/ Return

Spec == Init /\ [][Next]_vars

\* Two calls, on the first generator or on one constructed later.
InitRuns == InitWith(UniformWorlds(MaxRunDim, {"forest"}), MaxRunRegions, MaxSeed, 1, 2)

NextRuns ==
    \/ Next
    \/ \E s \in 1..MaxSeed : RegionGenerator_init(s)

SpecRuns == InitRuns /\ [][NextRuns]_vars

\* Two calls, with other generators constructed and region maps rendered in
\* between.
InitShared == InitWith(UniformWorlds(MaxRunDim, {"forest"}), MaxRunRegions, MaxSeed, 1, 2)

NextShared ==
    \/ NextRuns
    \/ \E s \in 1..MaxSeed : BiomeGenerator_init(1, 1, s)
    \/ \E s \in 1..MaxSeed : WorldMapGenerator_init(1, 1, s)
    \/ \E g \in 1..Len(gens) : \E i \in 1..Len(results) : RenderRegionMap(g, i)

SpecShared == InitShared /\ [][NextShared]_vars

MaxBadDim == 1       \* widths and heights go down to -MaxBadDim

\* The widths and heights of the requests.
RequestDims == (-MaxBadDim)..MaxNoiseDim

\* The (width, height, biome_map) arguments of a grid without cells.
EmptyWorlds ==
    {[w |-> d[1], h |-> d[2], bm |-> <<>>] :
        d \in {d \in RequestDims \X RequestDims : d[1] <= 0 \/ d[2] <= 0}}

\* A region generator that is called once on a grid without cells, and one
\* noise-based generator of any of the request dimensions.
InitRequests == InitWith(EmptyWorlds, MaxRunRegions, MaxSeed, 1, 1)

NextRequests ==
    \/ \E w \in RequestDims : \E h \in RequestDims : \E s \in 1..MaxSeed :
          BiomeGenerator_init(w, h, s)
    \/ \E w \in RequestDims : \E h \in RequestDims : \E s \in 1..MaxSeed :
          WorldMapGenerator_init(w, h, s)
    \/ BiomeGenerator_generate
    \/ WorldMapGenerator_generate
    \/ \E g \in 1..Len(gens) : GenerateRegionsEmpty(g)

SpecRequests == InitRequests /\ [][NextRequests]_vars

-----------------------------------------------------------------------------
(* Properties of the rule engine, checked under SpecRules *)

\* The in-bounds cells <<nx, ny>> among the 8 around (x, y).
NeighborCells(m, x, y) ==
    {p \in (0..(Width(m)-1)) \X (0..(Height(m)-1)) :
        /\ p # <<x, y>>
        /\ Abs(p[1] - x) <= 1
        /\ Abs(p[2] - y) <= 1}

NeighborsWith(m, x, y, S) ==
    Cardinality({p \in NeighborCells(m, x, y) : m[p[2]][p[1]] \in S})

Cells(m) == (0..(Width(m)-1)) \X (0..(Height(m)-1))

\* One pass in which every cell is evaluated on the input grid m alone.
rules_on_snapshot(m) ==
    [y \in DOMAIN m |-> [x \in DOMAIN m[y] |-> apply_cell(m, x, y)[y][x]]]

\* C1: the output of apply_rules equals, cell for cell, what the ordered rules
\* yield when every neighbour lookup reads the input (pre-pass) grid.
C1_SnapshotPass ==
    passes > 0 => terrain_map = rules_on_snapshot(prev_terrain)

\* No rule has a trigger anywhere in m.
StableGrid(m) ==
    \A p \in Cells(m) :
        LET x == p[1]
            y == p[2]
        IN  /\ ~ (m[y][x] = "mountain" /\ NeighborsWith(m, x, y, {"deep_water"}) >= 1)
            /\ ~ (m[y][x] = "grass" /\ NeighborsWith(m, x, y, {"sand"}) >= 5)
            /\ ~ (m[y][x] = "shallow_water"
                    /\ NeighborsWith(m, x, y, {"grass", "sand"}) >= 6)
            /\ ~ (m[y][x] = "forest"
                    /\ NeighborsWith(m, x, y, {"grass", "forest"}) = 0)

\* C8: a grid in which no rule has a trigger is returned unchanged by one pass.
C8_StableUnchanged ==
    (passes > 0 /\ StableGrid(prev_terrain)) => terrain_map = prev_terrain

\* A stable grid that holds a grass cell with exactly 4 sand neighbours and a
\* mountain, after a pass.
C8_Witness ==
    /\ passes > 0
    /\ StableGrid(prev_terrain)
    /\ \E p \in Cells(prev_terrain) :
          /\ prev_terrain[p[2]][p[1]] = "grass"
          /\ NeighborsWith(prev_terrain, p[1], p[2], {"sand"}) = 4
    /\ \E p \in Cells(prev_terrain) : prev_terrain[p[2]][p[1]] = "mountain"
    /\ terrain_map = prev_terrain

\* C9: one pass turns exactly the mountains with a deep-water neighbour in the
\* input grid into forest, and leaves every other mountain a mountain.
C9_MountainWater ==
    passes > 0 =>
        \A p \in Cells(prev_terrain) :
            prev_terrain[p[2]][p[1]] = "mountain" =>
                terrain_map[p[2]][p[1]] =
                    IF NeighborsWith(prev_terrain, p[1], p[2], {"deep_water"}) >= 1
                    THEN "forest" ELSE "mountain"

\* The 3x3 grid of mountains with deep water at (0,0).
ExampleGrid ==
    [y \in 0..2 |-> [x \in 0..2 |->
        IF x = 0 /\ y = 0 THEN "deep_water" ELSE "mountain"]]

\* The example after its first pass: only (1,0), (0,1) and (1,1) are forest.
C9_Witness ==
    /\ passes = 1
    /\ prev_terrain = ExampleGrid
    /\ \A p \in Cells(terrain_map) :
          terrain_map[p[2]][p[1]] =
              IF p = <<0, 0>> THEN "deep_water"
              ELSE IF p \in {<<1, 0>>, <<0, 1>>, <<1, 1>>} THEN "forest"
              ELSE "mountain"

-----------------------------------------------------------------------------
(* Properties of the region partitioner *)

GridCells == (0..(width - 1)) \X (0..(height - 1))

\* The cells of grid m that hold region id r.
CellsOf(m, r) == {p \in GridCells : m[p[2]][p[1]] = r}

RECURSIVE SumAreas(_, _)
SumAreas(rd, ids) ==
    IF ids = {} THEN 0
    ELSE LET r == CHOOSE r \in ids : TRUE
         IN  rd[r].area + SumAreas(rd, ids \ {r})

\* C2: in every returned result, the record of each region that has cells in
\* the returned grid lists exactly those cells, and its area is their number.
C2_RecordsMatchGrid ==
    \A i \in 1..Len(results) :
        \A r \in DOMAIN results[i].region_data :
            CellsOf(results[i].region_map, r) # {} =>
                /\ results[i].region_data[r].tiles = CellsOf(results[i].region_map, r)
                /\ results[i].region_data[r].area
                       = Cardinality(CellsOf(results[i].region_map, r))

\* C3: two runs (construct RegionGenerator(seed), then call generate_regions
\* at once) with the same seed and arguments return the same seed list, the
\* same region grid and the same region records.
C3_Deterministic ==
    \A i \in 1..Len(results) : \A j \in 1..Len(results) :
        (results[i].fresh /\ results[j].fresh /\ results[i].seed = results[j].seed) =>
            /\ results[i].seeds = results[j].seeds
            /\ results[i].region_map = results[j].region_map
            /\ results[i].region_data = results[j].region_data

\* Two such runs on different generators with the same seed have finished, on a
\* map where the first draw can fall on more than one cell.
C3_Witness ==
    /\ Len(results) = 2
    /\ results[1].fresh /\ results[2].fresh
    /\ results[1].gen # results[2].gen
    /\ results[1].seed = results[2].seed
    /\ width * height >= 2
    /\ tape[<<results[1].seed, 0>>] # 0

\* C4: after the assignment and after every smoothing pass, and in the returned
\* grid, every cell holds a region id in 0..num_regions-1.
C4_IdsInRange ==
    /\ pc = "smoothing" =>
          \A p \in GridCells : region_map[p[2]][p[1]] \in 0..(num_regions - 1)
    /\ \A i \in 1..Len(results) :
          \A p \in GridCells : results[i].region_map[p[2]][p[1]] \in 0..(num_regions - 1)

\* Both smoothing passes are done and two regions are left in the grid.
C4_Witness ==
    /\ pc = "smoothing"
    /\ iteration = SmoothIterations
    /\ num_regions = 2
    /\ CellsOf(region_map, 0) # {}
    /\ CellsOf(region_map, 1) # {}

\* d = floor(sqrt((W*H) / (num_regions*2)))
SeparationD ==
    CHOOSE d \in 0..(width * height) :
        /\ d * d * 2 * num_regions <= width * height
        /\ (d + 1) * (d + 1) * 2 * num_regions > width * height

\* C5: at every point of the seed loop and after it, any two entries of the
\* seed list are at Manhattan distance >= d.
C5_SeedSeparation ==
    \A i \in 1..Len(seeds) : \A j \in 1..Len(seeds) :
        i # j => Abs(seeds[i][1] - seeds[j][1]) + Abs(seeds[i][2] - seeds[j][2])
                    >= SeparationD

\* Two seeds are placed with d = 2.
C5_Witness ==
    /\ pc = "seeding"
    /\ Len(seeds) = 2
    /\ SeparationD = 2

\* C6: the seed loop never makes more than num_regions * 100 attempts nor places
\* more than num_regions seeds; every iteration counts as one attempt, so the
\* loop cannot go on for ever; once either limit is reached the loop is left at
\* the next step without another attempt; and it is only left with one of the
\* limits reached.
C6_SeedLoopTerminates ==
    /\ [](/\ Len(seeds) <= num_regions
          /\ attempts <= num_regions * 100
          /\ (pc = "smoothing" =>
                (Len(seeds) = num_regions \/ attempts = num_regions * 100)))
    /\ [][(pc = "seeding" /\ pc' = "seeding") => attempts' = attempts + 1]_vars
    /\ [][(pc = "seeding"
            /\ (Len(seeds) = num_regions \/ attempts = num_regions * 100))
          => (seeds' = seeds /\ attempts' = attempts /\ pc' = "smoothing")]_vars

\* The loop was left with both of two requested seeds placed.
C6_Witness ==
    /\ pc = "smoothing"
    /\ num_regions = 2
    /\ Len(seeds) = 2
    /\ attempts = 2

\* C7: every result holds exactly one record per placed seed, keyed 0..k-1, and
\* the areas of its records sum to width * height.
C7_RecordsAndAreas ==
    \A i \in 1..Len(results) :
        /\ DOMAIN results[i].region_data = 0..(Len(results[i].seeds) - 1)
        /\ Len(results[i].seeds) = num_regions
        /\ SumAreas(results[i].region_data, DOMAIN results[i].region_data)
               = width * height

\* A result with two records, both with cells.
C7_Witness ==
    /\ Len(results) = 1
    /\ num_regions = 2
    /\ results[1].region_data[0].area > 0
    /\ results[1].region_data[1].area > 0

\* BiomeType in the order of its declaration.
BiomeOrder ==
    <<"ocean", "desert", "swamp", "grassland", "forest", "steppe", "mountain", "snow">>

\* Occurrences of biome b among the cells of `tiles`.
BiomeCount(tiles, b) == Cardinality({t \in tiles : biome_map[t[2]][t[1]] = b})

\* The biomes with the highest count among `tiles`.
TopBiomes(tiles) ==
    {b \in BiomeType : /\ BiomeCount(tiles, b) > 0
                       /\ \A c \in BiomeType : BiomeCount(tiles, c) <= BiomeCount(tiles, b)}

\* The row-major number of the first cell of `tiles` that holds biome b.
FirstCell(tiles, b) ==
    CHOOSE k \in 0..(width * height - 1) :
        /\ <<k % width, k \div width>> \in tiles
        /\ biome_map[k \div width][k % width] = b
        /\ \A l \in 0..(k - 1) :
              ~ (<<l % width, l \div width>> \in tiles
                   /\ biome_map[l \div width][l % width] = b)

\* C10 as stated: the dominant biome of a region with cells is a biome with the
\* highest count among them, the first such in the BiomeType order.
C10_DominantEnumOrder ==
    \A i \in 1..Len(results) :
        \A r \in DOMAIN results[i].region_data :
            LET rec == results[i].region_data[r]
            IN  rec.tiles # {} =>
                    /\ rec.dominant_biome \in TopBiomes(rec.tiles)
                    /\ \A k \in 1..Len(BiomeOrder) :
                          (BiomeOrder[k] \in TopBiomes(rec.tiles)
                             /\ \A l \in 1..(k - 1) : BiomeOrder[l] \notin TopBiomes(rec.tiles))
                          => rec.dominant_biome = BiomeOrder[k]

\* C10 amended: the dominant biome of a region with cells is a biome with the
\* highest count among the cells its record lists, and of several such the one
\* whose first cell comes first in the row-by-row scan of the grid.
C10_DominantFirstScanned ==
    \A i \in 1..Len(results) :
        \A r \in DOMAIN results[i].region_data :
            LET rec == results[i].region_data[r]
            IN  rec.tiles # {} =>
                    /\ rec.dominant_biome \in TopBiomes(rec.tiles)
                    /\ \A b \in TopBiomes(rec.tiles) :
                          FirstCell(rec.tiles, rec.dominant_biome) <= FirstCell(rec.tiles, b)

\* A result with a region in which two biomes tie for the highest count and
\* the one later in the BiomeType order was scanned first.
C10_Witness ==
    \E i \in 1..Len(results) :
        \E r \in DOMAIN results[i].region_data :
            LET rec == results[i].region_data[r]
            IN  /\ Cardinality(TopBiomes(rec.tiles)) >= 2
                /\ rec.dominant_biome = "forest"
                /\ "ocean" \in TopBiomes(rec.tiles)

\* The ids held by the in-bounds neighbours of (x, y) in m.
NeighborIds(m, x, y) == {m[p[2]][p[1]] : p \in NeighborCells(m, x, y)}

\* How many in-bounds neighbours of (x, y) in m hold id r.
IdCount(m, x, y, r) ==
    Cardinality({p \in NeighborCells(m, x, y) : m[p[2]][p[1]] = r})

\* The place, top row to bottom row and left to right within a row, of the
\* first neighbour of (x, y) in m that holds id r.
FirstMet(m, x, y, r) ==
    LET at == {p[2] * Width(m) + p[1] :
                  p \in {q \in NeighborCells(m, x, y) : m[q[2]][q[1]] = r}}
    IN  CHOOSE k \in at : \A l \in at : k <= l

\* The id most frequent among the neighbours of (x, y) in m, the first met of
\* several.
MajorityId(m, x, y) ==
    CHOOSE r \in NeighborIds(m, x, y) :
        \A q \in NeighborIds(m, x, y) :
            \/ IdCount(m, x, y, q) < IdCount(m, x, y, r)
            \/ /\ IdCount(m, x, y, q) = IdCount(m, x, y, r)
               /\ FirstMet(m, x, y, r) <= FirstMet(m, x, y, q)

\* C13: every smoothing pass gives each cell with an in-bounds neighbour the id
\* most frequent among its in-bounds 8 neighbours in the grid before the pass
\* (own id not counted, ties to the id met first in the top-to-bottom,
\* left-to-right scan), and leaves a cell without neighbours as it is.
C13_SmoothSnapshot ==
    [][(pc = "smoothing" /\ iteration' = iteration + 1) =>
          \A p \in GridCells :
              region_map'[p[2]][p[1]] =
                  IF NeighborCells(region_map, p[1], p[2]) # {}
                  THEN MajorityId(region_map, p[1], p[2])
                  ELSE region_map[p[2]][p[1]]]_vars

\* The first pass is done, and in the grid before it some cell had two ids tied
\* among its neighbours and received the larger one, which was met first.
C13_Witness ==
    /\ pc = "smoothing"
    /\ iteration = 1
    /\ LET pre == assign_tiles_to_regions(width, height, seeds, biome_map).map
       IN  \E p \in GridCells :
               /\ IdCount(pre, p[1], p[2], 0) = IdCount(pre, p[1], p[2], 1)
               /\ IdCount(pre, p[1], p[2], 0) > 0
               /\ region_map[p[2]][p[1]] = 1


\* The Manhattan distance from cell p to the seed with index i (from 0).
SeedDist(p, i) == Abs(p[1] - seeds[i + 1][1]) + Abs(p[2] - seeds[i + 1][2])

\* C14: in the grid the assignment produces (before any smoothing pass) every
\* cell holds the index of a seed at the least Manhattan distance from it,
\* the lowest such index; and the record of a seed that repeats an earlier
\* seed's coordinate lists no cell.
C14_NearestLowestIndex ==
    pc = "smoothing" =>
        /\ iteration = 0 =>
              \A p \in GridCells :
                  LET r == region_map[p[2]][p[1]]
                  IN  /\ r \in 0..(Len(seeds) - 1)
                      /\ \A j \in 0..(Len(seeds) - 1) : SeedDist(p, r) <= SeedDist(p, j)
                      /\ \A j \in 0..(r - 1) : SeedDist(p, r) < SeedDist(p, j)
        /\ \A i \in 1..Len(seeds) : \A j \in (i + 1)..Len(seeds) :
              seeds[i] = seeds[j] =>
                  /\ region_data[j - 1].tiles = {}
                  /\ region_data[j - 1].area = 0
                  /\ (iteration = 0 => CellsOf(region_map, j - 1) = {})

\* The assignment has just run on two distinct seeds with a cell at the same
\* distance from both.
C14_Witness ==
    /\ pc = "smoothing"
    /\ iteration = 0
    /\ Len(seeds) = 2
    /\ seeds[1] # seeds[2]
    /\ \E p \in GridCells :
          /\ SeedDist(p, 0) = SeedDist(p, 1)
          /\ region_map[p[2]][p[1]] = 0

\* The seed list holds the same coordinate twice.
DuplicateSeeds ==
    \E i \in 1..Len(seeds) : \E j \in 1..Len(seeds) : i # j /\ seeds[i] = seeds[j]


\* C17: the entries of the seed list are pairwise distinct cells, and no
\* accepted seed is still in the eligible pool.
C17_SeedsDistinct ==
    /\ ~ DuplicateSeeds
    /\ \A i \in 1..Len(seeds) : \A k \in 1..Len(valid_positions) :
          <<valid_positions[k][1], valid_positions[k][2]>> # seeds[i]


\* The rewrites that move a cell down one of the chains
\* mountain -> forest -> grass -> sand and shallow_water -> sand.
ChainDown ==
    {<<"mountain", "forest">>, <<"mountain", "grass">>, <<"mountain", "sand">>,
     <<"forest", "grass">>, <<"forest", "sand">>, <<"grass", "sand">>,
     <<"shallow_water", "sand">>}

\* C15: under repeated application every pass leaves a cell alone or moves it
\* down a chain (deep water and sand are never rewritten), and a pass that
\* still changes a W x H grid is one of the first 3*W*H: the pass numbered
\* 3*W*H + 1 at the latest returns its input, a fixed point.
C15_ReachesFixedPoint ==
    passes > 0 =>
        /\ \A p \in Cells(prev_terrain) :
              \/ terrain_map[p[2]][p[1]] = prev_terrain[p[2]][p[1]]
              \/ <<prev_terrain[p[2]][p[1]], terrain_map[p[2]][p[1]]>> \in ChainDown
        /\ terrain_map # prev_terrain =>
              passes <= 3 * Width(terrain_map) * Height(terrain_map)
        /\ terrain_map = prev_terrain => apply_rules(terrain_map) = terrain_map

\* Three passes changed the grid and the fourth found it a fixed point.
C15_Witness ==
    /\ passes = 4
    /\ terrain_map = prev_terrain
    /\ apply_rules(terrain_map) = terrain_map


-----------------------------------------------------------------------------
(* Properties of the generators *)

NoiseOps == {"BiomeGenerator.generate", "WorldMapGenerator.generate"}

\* Whether the k-th noise field of the last request (1: scale 4, 4 octaves;
\* 2: scale 3, 3 octaves) was flat before it was normalised.
FlatField(k) ==
    is_flat(accumulate_noise(outcome.width, outcome.height,
                             IF k = 1 THEN 4 ELSE 3, IF k = 1 THEN 4 ELSE 3))

\* The normalised value v is 0.5.
IsHalf(v) == v.den > 0 /\ 2 * v.num = v.den

\* C11: a generate call whose accumulated noise field is flat divides nothing
\* by zero and gets a field of 0.5 in every cell; and when elevation and
\* moisture are both flat every cell of the biome map is Grassland.
C11_FlatFieldHalf ==
    (outcome.op \in NoiseOps /\ outcome.raised = "None") =>
        /\ \A k \in 1..Len(outcome.fields) :
              FlatField(k) =>
                  /\ ~ outcome.divided_by_zero
                  /\ \A y \in DOMAIN outcome.fields[k] :
                        \A x \in DOMAIN outcome.fields[k][y] :
                            IsHalf(outcome.fields[k][y][x])
        /\ (outcome.op = "BiomeGenerator.generate" /\ FlatField(1) /\ FlatField(2)) =>
              \A y \in DOMAIN outcome.grids[1] : \A x \in DOMAIN outcome.grids[1][y] :
                  outcome.grids[1][y][x] = "grassland"

\* C12: a request with width <= 0 or height <= 0 ends with an error (any
\* exception is taken for the InvalidParameter condition), without a grid
\* having been allocated and without returning one.
C12_InvalidDimensionsFailFast ==
    (outcome.op # "none" /\ (outcome.width <= 0 \/ outcome.height <= 0)) =>
        /\ outcome.raised # "None"
        /\ ~ outcome.allocated
        /\ outcome.grids = <<>>

\* C16: any two finished generate_regions calls on generators with the same
\* constructor seed (the arguments are the same throughout) returned the same
\* seed list, whatever was constructed, called or rendered before them.
C16_SeedsDependOnSeedOnly ==
    \A i \in 1..Len(results) : \A j \in 1..Len(results) :
        results[i].seed = results[j].seed => results[i].seeds = results[j].seeds


=============================================================================
